---- MODULE Spec2Model ----
(***************************************************************************)
(* Model of the merkle-tree crate (src/src/lib.rs): Hash nodes held in an  *)
(* arena (one entry per Rc<RefCell<Hash>>), the recursive level fold of    *)
(* merkle_root_aux / merkle_proof_aux taken one recursion level per step,  *)
(* merkle_proof's final indexing of the leaves, and verify_proof.          *)
(*                                                                         *)
(* Strings are sequences of atoms.  An atom is a record [c, pre]: a plain  *)
(* character has c >= 1 and pre = <<>>; the hexdigest of the string s is   *)
(* the single atom [c |-> 0, pre |-> s] (the 64 hex characters taken as a  *)
(* unit).  Sha256 is thereby modelled as collision-free, and "{}{}"        *)
(* formatting is sequence concatenation.                                   *)
(***************************************************************************)
EXTENDS Integers, Sequences, FiniteSets, TLC

VARIABLES pc, leaves, leaf_index, arena, nodes, audit_nodes, target_index,
          depth, root, proof, tamper, flipped, result

vars == <<pc, leaves, leaf_index, arena, nodes, audit_nodes, target_index,
          depth, root, proof, tamper, flipped, result>>

(* ------------------------------ bounds --------------------------------- *)

\* Longest leaf sequence drawn as input.
MaxLeaves == 5

\* Number of distinct plain characters a leaf is drawn from.
NumChars == 2

\* Recursion depth at which the thread's stack is exhausted.
StackLimit == 3

Chars == 1..NumChars

\* A one-character string.
Str(ch) == <<[c |-> ch, pre |-> <<>>]>>

\* The suffix the tests append to leaf_content ("tainted").
Tainted == Str(NumChars + 1)

LeafSeqs == UNION {[1..n -> {Str(ch) : ch \in Chars}] : n \in 0..MaxLeaves}

(* ------------------------------ Hash ----------------------------------- *)

\* A hash that looks at the first character of its input only.
hash_prefix(value) == <<[c |-> 0, pre |-> IF Len(value) = 0 THEN value ELSE SubSeq(value, 1, 1)]>>

\* Hash::hash: the sha256 hexdigest of value.
hash(value) == <<[c |-> 0, pre |-> value]>>

\* Hash::new
Hash_new(value) == [parent |-> 0, left |-> 0, right |-> 0, value |-> value, is_left |-> TRUE]

(* --------------------------- MerkleTree -------------------------------- *)

\* make_parent: the parent's value, Hash::hash(format!("{}{}", left.value, right.value)).
parent_value(left_value, right_value) == hash(left_value \o right_value)

\* make_parent without the write of right.is_left.
make_parent_keeps_flag(ar, l, r) ==
    LET pk == Len(ar) + 1
        ark == [ar EXCEPT ![l].is_left = TRUE]
        ark2 == [ark EXCEPT ![l].parent = pk]
        ark3 == [ark2 EXCEPT ![r].parent = pk]
    IN Append(ark3, [Hash_new(parent_value(ar[l].value, ar[r].value)) EXCEPT !.left = l, !.right = r])

\* make_parent: the arena after linking l and r under a new node, which
\* gets the next free id, Len(ar) + 1.
make_parent(ar, l, r) ==
    LET p == Len(ar) + 1
        ar1 == [ar EXCEPT ![l].is_left = TRUE]
        ar2 == [ar1 EXCEPT ![r].is_left = FALSE]
        ar3 == [ar2 EXCEPT ![l].parent = p]
        ar4 == [ar3 EXCEPT ![r].parent = p]
    IN Append(ar4, [Hash_new(parent_value(ar[l].value, ar[r].value)) EXCEPT !.left = l, !.right = r])

\* nodes.len() % 2 != 0
is_odd(ns) == Len(ns) % 2 # 0

\* The loop "for i in (0..(nodes.len() - if is_odd {1} else {0})).step_by(2)",
\* from 0-based position i on: the arena and the parents pushed.
RECURSIVE pair_loop(_, _, _, _)
pair_loop(ar, ns, i, parents) ==
    IF i >= Len(ns) - (IF is_odd(ns) THEN 1 ELSE 0)
    THEN [arena |-> ar, parents |-> parents]
    ELSE pair_loop(make_parent(ar, ns[i + 1], ns[i + 2]), ns, i + 2,
                   Append(parents, Len(ar) + 1))

\* A fold that pairs the unpaired last node with itself.
fold_level_dup(ar, ns) ==
    LET fd == pair_loop(ar, ns, 0, <<>>)
    IN IF is_odd(ns)
       THEN [arena |-> make_parent(fd.arena, ns[Len(ns)], ns[Len(ns)]),
             parents |-> Append(fd.parents, Len(fd.arena) + 1)]
       ELSE fd

\* One level of the fold: the pairs, then the last node pushed as it is
\* when the level is odd.
fold_level(ar, ns) ==
    LET f == pair_loop(ar, ns, 0, <<>>)
    IN IF is_odd(ns)
       THEN [arena |-> f.arena, parents |-> Append(f.parents, ns[Len(ns)])]
       ELSE f

\* The leaf nodes of merkle_root / merkle_proof: one Hash::new(Hash::hash(leaf))
\* per leaf, in order.
leaf_nodes(ls) == [k \in 1..Len(ls) |-> Hash_new(hash(ls[k]))]

\* A sibling index that always looks to the right.
sibling_index_right(t) == t + 1

\* merkle_proof_aux: sibling_index
sibling_index(t) == IF t % 2 = 0 THEN t + 1 ELSE t - 1

\* A bounds test that is off by one.
sibling_in_range_strict(s, ns) == s + 1 < Len(ns)

\* merkle_proof_aux: sibling_index < nodes.len()
sibling_in_range(s, ns) == s < Len(ns)

\* A parent index that rounds up.
new_target_index_up(t) == (t + 1) \div 2

\* merkle_proof_aux: new_target_index
new_target_index(t) == t \div 2

\* A verifier step that ignores the orientation flag.
verify_step_unoriented(res, audit_value, audit_is_left) == hash(res \o audit_value)

\* verify_proof: one iteration of the loop over proof.hashes.
verify_step(res, audit_value, audit_is_left) ==
    IF audit_is_left THEN hash(audit_value \o res) ELSE hash(res \o audit_value)

\* verify_proof: the loop over proof.hashes from position j on.
RECURSIVE verify_loop(_, _, _, _)
verify_loop(ar, hs, j, res) ==
    IF j > Len(hs) THEN res
    ELSE verify_loop(ar, hs, j + 1, verify_step(res, ar[hs[j]].value, ar[hs[j]].is_left))

\* verify_proof
verify_proof(ar, rt, p) == verify_loop(ar, p.hashes, 1, hash(p.leaf_content)) = ar[rt].value

NoProof == [hashes |-> <<>>, num_of_leaves |-> 0, leaf_index |-> 0, leaf_content |-> <<>>]

(* ------------------------------ state ---------------------------------- *)

Init ==
    /\ pc = "start"
    /\ leaves \in LeafSeqs
    /\ leaf_index \in 0..MaxLeaves
    /\ arena = <<>>
    /\ nodes = <<>>
    /\ audit_nodes = <<>>
    /\ target_index = 0
    /\ depth = 0
    /\ root = 0
    /\ proof = NoProof
    /\ tamper = "none"
    /\ flipped = 0
    /\ result = FALSE

\* merkle_root, up to the call of merkle_root_aux.
RootStart ==
    /\ pc = "start"
    /\ arena' = arena \o leaf_nodes(leaves)
    /\ nodes' = [k \in 1..Len(leaves) |-> Len(arena) + k]
    /\ depth' = 0
    /\ pc' = "root_aux"
    /\ UNCHANGED <<leaves, leaf_index, audit_nodes, target_index, root, proof, tamper, flipped, result>>

\* merkle_root_aux with nodes.len() == 1: the node is the root.
RootAuxReturn ==
    /\ pc = "root_aux"
    /\ Len(nodes) = 1
    /\ root' = nodes[1]
    /\ nodes' = <<>>
    /\ pc' = "root_done"
    /\ UNCHANGED <<leaves, leaf_index, arena, audit_nodes, target_index, depth, proof, tamper, flipped, result>>

\* merkle_root_aux otherwise: fold the level and recurse.
RootAuxFold ==
    /\ pc = "root_aux"
    /\ Len(nodes) # 1
    /\ depth < StackLimit
    /\ arena' = fold_level(arena, nodes).arena
    /\ nodes' = fold_level(arena, nodes).parents
    /\ depth' = depth + 1
    /\ UNCHANGED <<pc, leaves, leaf_index, audit_nodes, target_index, root, proof, tamper, flipped, result>>

\* merkle_proof, up to the call of merkle_proof_aux.
ProofStart ==
    /\ pc \in {"start", "root_done"}
    /\ arena' = arena \o leaf_nodes(leaves)
    /\ nodes' = [k \in 1..Len(leaves) |-> Len(arena) + k]
    /\ audit_nodes' = <<>>
    /\ target_index' = leaf_index
    /\ depth' = 0
    /\ pc' = "proof_aux"
    /\ UNCHANGED <<leaves, leaf_index, root, proof, tamper, flipped, result>>

\* merkle_proof_aux with nodes.len() == 1: audit_nodes is returned.
ProofAuxReturn ==
    /\ pc = "proof_aux"
    /\ Len(nodes) = 1
    /\ nodes' = <<>>
    /\ pc' = "proof_ret"
    /\ UNCHANGED <<leaves, leaf_index, arena, audit_nodes, target_index, depth, root, proof, tamper, flipped, result>>

\* merkle_proof_aux otherwise: record the sibling, fold the level, recurse.
ProofAuxFold ==
    /\ pc = "proof_aux"
    /\ Len(nodes) # 1
    /\ depth < StackLimit
    /\ audit_nodes' = IF sibling_in_range(sibling_index(target_index), nodes)
                      THEN Append(audit_nodes, nodes[sibling_index(target_index) + 1])
                      ELSE audit_nodes
    /\ target_index' = new_target_index(target_index)
    /\ arena' = fold_level(arena, nodes).arena
    /\ nodes' = fold_level(arena, nodes).parents
    /\ depth' = depth + 1
    /\ UNCHANGED <<pc, leaves, leaf_index, root, proof, tamper, flipped, result>>

\* The recursion of either fold runs out of stack: the process aborts.
StackOverflow ==
    /\ pc \in {"root_aux", "proof_aux"}
    /\ Len(nodes) # 1
    /\ depth >= StackLimit
    /\ pc' = "overflow"
    /\ UNCHANGED <<leaves, leaf_index, arena, nodes, audit_nodes, target_index, depth, root, proof, tamper, flipped, result>>

\* merkle_proof: the MerkleProof literal, leaves[leaf_index] in range.
ProofFinish ==
    /\ pc = "proof_ret"
    /\ leaf_index < Len(leaves)
    /\ proof' = [hashes |-> audit_nodes, num_of_leaves |-> Len(leaves),
                 leaf_index |-> leaf_index, leaf_content |-> leaves[leaf_index + 1]]
    /\ pc' = "proof_done"
    /\ UNCHANGED <<leaves, leaf_index, arena, nodes, audit_nodes, target_index, depth, root, tamper, flipped, result>>

\* merkle_proof: leaves[leaf_index] out of range panics.
ProofPanic ==
    /\ pc = "proof_ret"
    /\ leaf_index >= Len(leaves)
    /\ pc' = "panic"
    /\ UNCHANGED <<leaves, leaf_index, arena, nodes, audit_nodes, target_index, depth, root, proof, tamper, flipped, result>>

\* The strings a hand-made leaf_content is drawn from: the one-character
\* strings, the genuine content with the tests' suffix, and the
\* concatenations left.value + right.value of the nodes built so far.
Contents(ar, content) ==
    {Str(ch) : ch \in Chars} \cup {content \o Tainted}
    \cup {ar[ar[n].left].value \o ar[ar[n].right].value : n \in {m \in 1..Len(ar) : ar[m].left # 0}}

\* The tests' "proof.leaf_content += ..." and other rewrites of the field.
TamperLeaf ==
    /\ pc = "proof_done"
    /\ root # 0
    /\ \E content \in Contents(arena, proof.leaf_content) \ {proof.leaf_content} :
          proof' = [proof EXCEPT !.leaf_content = content]
    /\ tamper' = "leaf"
    /\ pc' = "tampered"
    /\ UNCHANGED <<leaves, leaf_index, arena, nodes, audit_nodes, target_index, depth, root, flipped, result>>

\* A caller negates is_left of the j-th audit node (the fields are pub).
FlipOrientation ==
    /\ pc = "proof_done"
    /\ root # 0
    /\ \E j \in 1..Len(proof.hashes) :
          /\ arena' = [arena EXCEPT ![proof.hashes[j]].is_left = ~@]
          /\ flipped' = j
    /\ tamper' = "flip"
    /\ pc' = "tampered"
    /\ UNCHANGED <<leaves, leaf_index, nodes, audit_nodes, target_index, depth, root, proof, result>>

\* A caller assembles a MerkleProof by hand: any leaf_content, and the
\* audit list cut to one of its tails.
Forge ==
    /\ pc = "proof_done"
    /\ root # 0
    /\ \E content \in Contents(arena, proof.leaf_content), k \in 1..(Len(proof.hashes) + 1) :
          proof' = [proof EXCEPT !.leaf_content = content,
                                 !.hashes = SubSeq(proof.hashes, k, Len(proof.hashes))]
    /\ tamper' = "forge"
    /\ pc' = "tampered"
    /\ UNCHANGED <<leaves, leaf_index, arena, nodes, audit_nodes, target_index, depth, root, flipped, result>>

\* verify_proof(root, &proof)
VerifyProof ==
    /\ pc \in {"proof_done", "tampered"}
    /\ root # 0
    /\ result' = verify_proof(arena, root, proof)
    /\ pc' = "verified"
    /\ UNCHANGED <<leaves, leaf_index, arena, nodes, audit_nodes, target_index, depth, root, proof, tamper, flipped>>

Next ==
    \/ RootStart
    \/ RootAuxReturn
    \/ RootAuxFold
    \/ ProofStart
    \/ ProofAuxReturn
    \/ ProofAuxFold
    \/ StackOverflow
    \/ ProofFinish
    \/ ProofPanic
    \/ TamperLeaf
    \/ FlipOrientation
    \/ Forge
    \/ VerifyProof

Spec == Init /\ [][Next]_vars

(* --------------------------- reference ---------------------------------- *)

RECURSIVE Pow2(_)
Pow2(k) == IF k = 0 THEN 1 ELSE 2 * Pow2(k - 1)

\* ceil(log2(n)) for n >= 1: the least d with 2^d >= n.
CeilLog2(n) == CHOOSE d \in 0..n : Pow2(d) >= n /\ \A e \in 0..(d - 1) : Pow2(e) < n

IsPow2(n) == \E d \in 0..n : Pow2(d) = n

\* The largest power of two strictly less than n, for n >= 2.
LargestPow2Below(n) == CHOOSE q \in 1..n : IsPow2(q) /\ q < n /\ 2 * q >= n

\* The reference digest of a non-empty leaf sequence, top-down.
RECURSIVE T(_)
T(L) ==
    IF Len(L) = 1 THEN hash(L[1])
    ELSE LET q == LargestPow2Below(Len(L))
         IN hash(T(SubSeq(L, 1, q)) \o T(SubSeq(L, q + 1, Len(L))))

\* Number of nodes of fold level k over n leaves.
LevelSize(n, k) == (n + Pow2(k) - 1) \div Pow2(k)

Min(a, b) == IF a < b THEN a ELSE b

\* The leaves under position pos (0-based) of fold level k.
Block(L, k, pos) == SubSeq(L, pos * Pow2(k) + 1, Min((pos + 1) * Pow2(k), Len(L)))

\* Position (t XOR 1).
Xor1(t) == IF t % 2 = 0 THEN t + 1 ELSE t - 1

\* The fold levels, bottom to top, at which target i has a sibling.
AuditLevels(n, i) ==
    LET ks == {k \in 0..(CeilLog2(n) - 1) : Xor1(i \div Pow2(k)) < LevelSize(n, k)}
        RECURSIVE Sorted(_, _)
        Sorted(k, rest) ==
            IF rest = {} THEN <<>>
            ELSE IF k \in rest THEN <<k>> \o Sorted(k + 1, rest \ {k})
            ELSE Sorted(k + 1, rest)
    IN Sorted(0, ks)

\* The audit path the data flow calls for: per level with a sibling, the
\* sibling subtree's digest, its orientation and the 0-based index of its
\* first leaf.
ExpectedAudit(L, i) ==
    LET lv == AuditLevels(Len(L), i)
    IN [j \in 1..Len(lv) |->
          LET t == i \div Pow2(lv[j])
          IN [value |-> T(Block(L, lv[j], Xor1(t))),
              is_left |-> (t % 2 = 1),
              first |-> Xor1(t) * Pow2(lv[j])]]

\* The fold levels at which target i is the unpaired last node.
PromotedLevels(n, i) ==
    {k \in 0..(CeilLog2(n) - 1) : LevelSize(n, k) % 2 = 1 /\ i \div Pow2(k) = LevelSize(n, k) - 1}

\* Id of the first node merkle_proof creates, minus one.
ProofBase == IF root = 0 THEN 0 ELSE 2 * Len(leaves) - 1

\* The leftmost leaf under node id.
RECURSIVE LeftmostLeaf(_, _)
LeftmostLeaf(ar, id) == IF ar[id].left = 0 THEN id ELSE LeftmostLeaf(ar, ar[id].left)

\* The audit path merkle_proof returned, read through the node handles.
ActualAudit ==
    [j \in 1..Len(proof.hashes) |->
        [value |-> arena[proof.hashes[j]].value,
         is_left |-> arena[proof.hashes[j]].is_left,
         first |-> LeftmostLeaf(arena, proof.hashes[j]) - ProofBase - 1]]

ValidIndex == Len(leaves) >= 1 /\ leaf_index < Len(leaves)

HasDuplicates == \E a, b \in 1..Len(leaves) : a # b /\ leaves[a] = leaves[b]

Building == pc \in {"root_aux", "root_done", "proof_aux", "proof_ret", "proof_done"}

Parents(ar, id) == {m \in 1..Len(ar) : ar[m].left = id \/ ar[m].right = id}

WellFormed(ar) ==
    \A id \in 1..Len(ar) :
        /\ (ar[id].left = 0) = (ar[id].right = 0)
        /\ ar[id].left # 0 =>
              /\ ar[id].left # ar[id].right
              /\ ar[id].value = hash(ar[ar[id].left].value \o ar[ar[id].right].value)
              /\ ar[ar[id].left].is_left = TRUE
              /\ ar[ar[id].right].is_left = FALSE
              /\ ar[ar[id].left].parent = id
              /\ ar[ar[id].right].parent = id
        /\ Cardinality(Parents(ar, id)) <= 1
        /\ ar[id].parent # 0 => Parents(ar, id) = {ar[id].parent}
        /\ ar[id].parent = 0 => Parents(ar, id) = {}

Roots(ar, lo) == {id \in (lo + 1)..Len(ar) : ar[id].parent = 0}

(* ------------------------------ claims ---------------------------------- *)

\* C1: a proof built by merkle_proof(L, i) for a valid index verifies
\* against merkle_root(L), also when the target is the promoted odd node.
C1_RoundTrip == (pc = "verified" /\ tamper = "none") => result = TRUE

C1_Witness ==
    /\ pc = "verified" /\ tamper = "none" /\ result = TRUE
    /\ Len(leaves) = 5 /\ leaf_index = 4 /\ HasDuplicates
    /\ Len(proof.hashes) = 1

\* C2: with leaf_content replaced by any different value and hashes left
\* as they are, verify_proof returns false.
C2_TamperDetected == (pc = "verified" /\ tamper = "leaf") => result = FALSE

C2_Witness ==
    /\ pc = "verified" /\ tamper = "leaf" /\ result = FALSE
    /\ proof.leaf_content = leaves[leaf_index + 1] \o Tainted
    /\ Len(proof.hashes) >= 2

\* C3: the value of the root merkle_root returns is the top-down reference
\* digest T(L): an unpaired last node is carried up unchanged.
C3_RootShape == pc = "root_done" => arena[root].value = T(leaves)

C3_Witness ==
    /\ pc = "root_done" /\ Len(leaves) = 5
    /\ arena[root].value = hash(hash(hash(hash(leaves[1]) \o hash(leaves[2]))
                                     \o hash(hash(leaves[3]) \o hash(leaves[4])))
                                \o hash(leaves[5]))

\* C4: the hashes of merkle_proof(L, i) are, bottom to top, the nodes at
\* position (t XOR 1) of each fold level that has that position, with the
\* sibling subtree's digest and is_left true exactly when t is odd.
C4_AuditPath == (pc = "proof_done" /\ ValidIndex) => ActualAudit = ExpectedAudit(leaves, leaf_index)

C4_Witness ==
    /\ pc = "proof_done" /\ Len(leaves) = 5 /\ leaf_index = 4
    /\ Len(proof.hashes) = 1
    /\ arena[proof.hashes[1]].is_left
    /\ HasDuplicates

SiblingsDiffer(j) ==
    LET kf == AuditLevels(Len(leaves), leaf_index)[j]
        tf == leaf_index \div Pow2(kf)
    IN T(Block(leaves, kf, tf)) # T(Block(leaves, kf, Xor1(tf)))

C6_RejectedFirst ==
    (Len(leaves) >= 1 /\ leaf_index >= Len(leaves) /\ pc \notin {"start", "root_aux", "root_done"})
        => (pc = "invalid_index" /\ Len(arena) = ProofBase)

\* C7 as stated: on empty input the fold never goes on from an empty level
\* and the call never crashes.
C7_EmptyDefined == Len(leaves) = 0 => (depth = 0 /\ pc # "overflow")

\* C8: the fold runs ceil(log2(n)) levels, and the audit list is that long
\* minus the levels at which the target is the unpaired node; for n a
\* power of two it is log2(n) long.
C8_ProofLength ==
    /\ pc = "root_done" => depth = CeilLog2(Len(leaves))
    /\ (pc = "proof_done" /\ ValidIndex) =>
          /\ depth = CeilLog2(Len(leaves))
          /\ Len(proof.hashes) = depth - Cardinality(PromotedLevels(Len(leaves), leaf_index))
          /\ IsPow2(Len(leaves)) => Len(proof.hashes) = CeilLog2(Len(leaves))

C8_Witness ==
    /\ pc = "proof_done" /\ Len(leaves) = 5 /\ leaf_index = 4
    /\ depth = 3 /\ Len(proof.hashes) = 1

\* C9: while and after merkle_root / merkle_proof build a tree over
\* non-empty input, every node has no or two children, an inner node's
\* value is the hash of its children's values, its children are flagged
\* left and right and point back to it, no node has two parents, and the
\* finished tree has exactly one node without a parent, the root.
C9_WellFormed ==
    (Building /\ Len(leaves) >= 1) =>
        /\ WellFormed(arena)
        /\ \A k \in 1..Len(nodes) : arena[nodes[k]].parent = 0
        /\ pc = "root_done" => Roots(arena, 0) = {root}
        /\ pc \in {"proof_ret", "proof_done"} => Cardinality(Roots(arena, ProofBase)) = 1

C9_Witness ==
    /\ pc = "proof_done" /\ Len(leaves) = 5 /\ root # 0
    /\ Len(arena) = 18

\* C10 as stated: whatever proof verify_proof accepts against
\* merkle_root(L) has a leaf_content that is an element of L.
C10_Membership ==
    (pc = "verified" /\ result = TRUE) => \E k \in 1..Len(leaves) : leaves[k] = proof.leaf_content

====
